---- MODULE Spec2Model ----
(***************************************************************************)
(* Model of bot/bananaboatbot.go: the Lua bridge of BananaBoatBot.         *)
(*   ReloadLua        - reload of the script, registry rebuild and server  *)
(*                      reconciliation                                     *)
(*   HandleHandlers   - synchronous dispatch of an inbound message         *)
(*   handleLuaReturnValues - decoding and forwarding of returned actions   *)
(*   HandleErrors     - recovery after a connection error                  *)
(*   luaLibWorker     - worker goroutines on pool interpreters             *)
(* Every goroutine is a process with a program counter.  A step is a lock  *)
(* operation together with the accesses it protects, or one access of      *)
(* memory the goroutine shares without a lock that excludes the others.    *)
(***************************************************************************)
EXTENDS Integers, Sequences, FiniteSets, TLC

\* ---------------------------------------------------------------- bounds
MaxInst == 4          \* connection instances created in one behaviour
QueueCap == 1         \* capacity of an instance's outbound channel
MaxExp == 1           \* cap of the reconnect-backoff exponent

\* ------------------------------------------------------ program constants
DefaultIrcPort == 6667

Names == {"test", "net2"}              \* friendly server names a script declares
WorkerIds == {"w1", "w2"}              \* goroutines luaLibWorker starts
PoolStates == {"s1", "s2"}             \* interpreters made by b.luaPool.New
DispTasks == {"d1", "d2"}              \* goroutines running HandleHandlers
ErrTasks == {"e1", "e2"}               \* goroutines running HandleErrors
InstIds == 1 .. MaxInst
None == 0                              \* sync.Map Load: ok = false

\* ------------------------------------------------------------ Lua values
LNil == [t |-> "nil"]
LStr(s) == [t |-> "str", v |-> s]
LNum(n) == [t |-> "num", v |-> n]
LBoolV(b) == [t |-> "bool", v |-> b]
LFn(f) == [t |-> "fn", v |-> f]
LTbl(x) == [t |-> "tbl", v |-> x]

\* lua.LVAsString: strings as they are, numbers formatted, anything else ""
LVAsString(lv) ==
  IF lv.t = "str" THEN lv.v
  ELSE IF lv.t = "num" THEN ToString(lv.v)
  ELSE ""

\* ------------------------------------------------------ script payloads
\* The defaults a script may set (the test scripts set all three or none).
DefaultOpts ==
  { [nick |-> LNil, realname |-> LNil, username |-> LNil],
    [nick |-> LStr("testbot1"), realname |-> LStr("e"), username |-> LStr("a")] }

\* `handlers` of the returned table: a table (set of key/value entries) or not.
HandlerTbls ==
  { {},
    { [k |-> LStr("PRIVMSG"), v |-> LFn("f1")] },
    { [k |-> LStr("PRIVMSG"), v |-> LFn("f2")], [k |-> LStr("JOIN"), v |-> LFn("f1")] },
    { [k |-> LStr("JOIN"), v |-> LStr("notcallable")], [k |-> LNum(1), v |-> LFn("f1")] } }

\* One entry of `servers`: a settings table, with TLS off or on.
SettingTbls ==
  { [server |-> LStr("localhost"), tls |-> LBoolV(FALSE), tls_verify |-> LNil,
     port |-> LNil, nick |-> LNil, realname |-> LNil, username |-> LNil],
    [server |-> LStr("localhost"), tls |-> LBoolV(TRUE), tls_verify |-> LNil,
     port |-> LNil, nick |-> LNil, realname |-> LNil, username |-> LNil] }

\* client.IrcServerSettings (the fields ReloadLua fills and compares)
NoSettings ==
  [Host |-> "", Port |-> 0, TLS |-> FALSE, VerifyTLS |-> FALSE,
   Nick |-> "", Realname |-> "", Username |-> ""]

\* An instance slot that NewIrcServer has not handed out yet.
NoInst ==
  [created |-> FALSE, name |-> "", settings |-> NoSettings, closed |-> FALSE,
   dialed |-> FALSE, exp |-> 0, queue |-> <<>>]

VARIABLES
  handlers,       \* b.handlers: command name -> callable
  nick, realname, username,   \* bot-wide defaults
  Servers,        \* b.Servers: name -> instance id, None when absent
  inst,           \* the connection instances ever created
  nextId,         \* next generation token NewIrcServer hands out
  luaMutex,       \* holder of b.luaMutex, "free" when unlocked
  handlersMutex,  \* b.handlersMutex: [w: writer held, r: set of readers]
  serversMutex,   \* holder of b.serversMutex, "free" when unlocked
  curNet, curMessage,  \* transient call context
  stackTop,       \* b.luaState: number of values on the shared stack
  rl,             \* the goroutine running ReloadLua
  disp,           \* goroutines running HandleHandlers
  errh,           \* goroutines running HandleErrors
  gor,            \* goroutines started with `go`: Dial and Close
  crashed,        \* an unrecovered panic ended the process
  wrk,            \* goroutines started by luaLibWorker
  pool,           \* b.luaPool: the interpreters put back and not taken again
  poolTop         \* number of values on the stack of each pool interpreter

vars == <<handlers, nick, realname, username, Servers, inst, nextId, luaMutex,
          handlersMutex, serversMutex, curNet, curMessage, stackTop, rl, disp,
          errh, gor, crashed, wrk, pool, poolTop>>

botDefaults == <<nick, realname, username>>
locks == <<luaMutex, handlersMutex, serversMutex>>
callCtx == <<curNet, curMessage>>
workers == <<wrk, pool, poolTop>>


\* ------------------------------------------------- ReloadLua: pure parts
\* lines 264-270: the entries of the handler table whose value is a function
Callables(tbl) == { e \in tbl : e.v.t = "fn" }

\* luaCommands as built at line 268
LuaCommands(tbl) == { LVAsString(e.k) : e \in Callables(tbl) }

\* lines 264-270: b.handlers[commandNameStr] = handlerFunc for every callable
InsertHandlers(h, tbl) ==
  [c \in DOMAIN h \cup LuaCommands(tbl) |->
     IF c \in LuaCommands(tbl)
     THEN (CHOOSE e \in Callables(tbl) : LVAsString(e.k) = c).v.v
     ELSE h[c]]

\* a rebuild that leaves the stale commands in the map
MutDeleteStale(h, cmds) == h

\* lines 275-280: delete handlers still in the map but no longer defined
DeleteStale(h, cmds) == [c \in { k \in DOMAIN h : k \in cmds } |-> h[c]]

\* lines 241-257: a default is overridden only by a non-empty string value
NewDefault(old, lv) == IF Len(LVAsString(lv)) > 0 THEN LVAsString(lv) ELSE old

\* lines 293-360: the candidate settings built from one entry of `servers`
CandidateSettings(tbl, n, r, u) ==
  [Host |-> LVAsString(tbl.server),
   Port |-> IF tbl.port.t = "num" THEN tbl.port.v ELSE DefaultIrcPort,
   TLS |-> IF tbl.tls.t = "bool" THEN tbl.tls.v ELSE FALSE,
   VerifyTLS |-> IF tbl.tls_verify.t = "bool" /\ tbl.tls_verify.v = FALSE
                 THEN FALSE ELSE TRUE,
   Nick |-> IF tbl.nick.t = "str" THEN tbl.nick.v ELSE n,
   Realname |-> IF tbl.realname.t = "str" THEN tbl.realname.v ELSE r,
   Username |-> IF tbl.username.t = "str" THEN tbl.username.v ELSE u]

\* lines 364-370: the field-for-field comparison
SettingsEqual(old, new) ==
  /\ old.Host = new.Host
  /\ old.Port = new.Port
  /\ old.TLS = new.TLS
  /\ old.VerifyTLS = new.VerifyTLS
  /\ old.Nick = new.Nick
  /\ old.Realname = new.Realname
  /\ old.Username = new.Username

\* ------------------------------------------- the connection handle (client)
\* Config.NewIrcServer: a fresh instance, not dialed, backoff reset
NewIrcServer(i, id, name, settings) ==
  [i EXCEPT ![id] = [created |-> TRUE, name |-> name, settings |-> settings,
                     closed |-> FALSE, dialed |-> FALSE, exp |-> 0,
                     queue |-> <<>>]]

\* IrcServerInterface.Close: cancels the instance
CloseInst(i, id) == [i EXCEPT ![id].closed = TRUE]

\* IrcServerInterface.Dial: starts connecting the instance
DialInst(i, id) == [i EXCEPT ![id].dialed = TRUE]

\* IrcServerInterface.ReconnectWait: sleeps, then raises the backoff exponent
ReconnectWait(i, id) ==
  [i EXCEPT ![id].exp = IF @ < MaxExp THEN @ + 1 ELSE @]

\* a reload that recreates every declared server
MutCreateServer(srvs, i, n, cand) == TRUE

\* lines 364-375: createServer, from the Load of the registered instance
CreateServer(srvs, i, n, cand) ==
  IF srvs[n] # None THEN ~SettingsEqual(i[srvs[n]].settings, cand) ELSE TRUE

\* idle state of the ReloadLua goroutine.  kept records the names whose
\* instance the comparison of this call left alone; cand the candidate
\* settings (serverSettings, line 349) of each name; pre holds the registry
\* the call found and, until the call can no longer fail, the defaults, the
\* server set and the number of instances it found.
NoPre == [handlers |-> <<>>, defaults |-> <<"", "", "">>,
          Servers |-> [n \in Names |-> None], nextId |-> 0]
RlIdle ==
  [pc |-> "idle", err |-> "", handlerTbl |-> LNil, luaServerNames |-> {},
   todo |-> {}, rmTodo |-> {}, cur |-> "", oldSvr |-> None, newSvr |-> None,
   kept |-> {}, cand |-> [n \in Names |-> NoSettings], pre |-> NoPre]

\* the state ReloadLua finds when it is called
Pre(h, d, srvs, n) == [handlers |-> h, defaults |-> d, Servers |-> srvs, nextId |-> n]

ErrIdle == [pc |-> "idle", ctx |-> None, s |-> None, newSvr |-> None]

\* ------------------------------------------------------------- ReloadLua
\* lines 224-233: luaMutex.Lock(); DoFile fails
RL_DoFileErr ==
  /\ ~crashed
  /\ rl.pc = "idle"
  /\ luaMutex = "free"
  /\ luaMutex' = "reload"
  /\ rl' = [RlIdle EXCEPT !.pc = "unlock", !.err = "dofile",
                          !.pre = Pre(handlers, botDefaults, Servers, nextId)]
  /\ UNCHANGED workers
  /\ UNCHANGED <<handlers, botDefaults, Servers, inst, nextId, handlersMutex,
                 serversMutex, callCtx, stackTop, disp, errh, gor, crashed>>

\* lines 224-238: luaMutex.Lock(); the script returns something that is not a
\* table
RL_DoFileNotTable ==
  /\ ~crashed
  /\ rl.pc = "idle"
  /\ luaMutex = "free"
  /\ luaMutex' = "reload"
  /\ stackTop' = stackTop + 1
  /\ rl' = [RlIdle EXCEPT !.pc = "unlock", !.err = "rettype",
                          !.pre = Pre(handlers, botDefaults, Servers, nextId)]
  /\ UNCHANGED workers
  /\ UNCHANGED <<handlers, botDefaults, Servers, inst, nextId, handlersMutex,
                 serversMutex, callCtx, disp, errh, gor, crashed>>

\* lines 224-257: luaMutex.Lock(); the script returns a table; the defaults
\* are taken from it
RL_DoFile(d) ==
  /\ ~crashed
  /\ rl.pc = "idle"
  /\ luaMutex = "free"
  /\ luaMutex' = "reload"
  /\ nick' = NewDefault(nick, d.nick)
  /\ realname' = NewDefault(realname, d.realname)
  /\ username' = NewDefault(username, d.username)
  /\ stackTop' = stackTop + 1
  /\ rl' = [RlIdle EXCEPT !.pc = "lockHandlers",
                          !.pre = Pre(handlers, botDefaults, Servers, nextId)]
  /\ UNCHANGED workers
  /\ UNCHANGED <<handlers, Servers, inst, nextId, handlersMutex, serversMutex,
                 callCtx, disp, errh, gor, crashed>>

\* lines 259-273: handlersMutex.Lock(); `handlers` is not a table
RL_HandlersNotTable ==
  /\ ~crashed
  /\ rl.pc = "lockHandlers"
  /\ ~handlersMutex.w
  /\ handlersMutex.r = {}
  /\ handlersMutex' = [handlersMutex EXCEPT !.w = TRUE]
  /\ rl' = [rl EXCEPT !.pc = "unlock", !.err = "handlerstype"]
  /\ UNCHANGED workers
  /\ UNCHANGED <<handlers, botDefaults, Servers, inst, nextId, luaMutex,
                 serversMutex, callCtx, stackTop, disp, errh, gor, crashed>>

\* lines 259-287: handlersMutex.Lock(); the registry is rebuilt from the
\* handler table h; declared are the names whose entry in `servers` is a
\* table (none when `servers` is not a table), the entries ForEach acts on
RL_Handlers(h, declared) ==
  /\ ~crashed
  /\ rl.pc = "lockHandlers"
  /\ ~handlersMutex.w
  /\ handlersMutex.r = {}
  /\ handlersMutex' = [handlersMutex EXCEPT !.w = TRUE]
  /\ handlers' = DeleteStale(InsertHandlers(handlers, h), LuaCommands(h))
  /\ rl' = [rl EXCEPT !.pc = "srvloop", !.handlerTbl = LTbl(h),
                      !.todo = declared, !.rmTodo = Names,
                      !.pre = [NoPre EXCEPT !.handlers = handlers]]
  /\ UNCHANGED workers
  /\ UNCHANGED <<botDefaults, Servers, inst, nextId, luaMutex, serversMutex,
                 callCtx, stackTop, disp, errh, gor, crashed>>

\* lines 291-375: the entry of n is the settings table tbl, and the instance
\* registered under n has the candidate's settings: nothing is created
RL_SrvKeep(n, tbl) ==
  /\ ~crashed
  /\ rl.pc = "srvloop"
  /\ n \in rl.todo
  /\ ~CreateServer(Servers, inst, n,
                   CandidateSettings(tbl, nick, realname, username))
  /\ rl' = [rl EXCEPT !.todo = @ \ {n}, !.kept = @ \cup {n},
                      !.luaServerNames = @ \cup {n},
                      !.cand[n] = CandidateSettings(tbl, nick, realname,
                                                    username)]
  /\ UNCHANGED workers
  /\ UNCHANGED <<handlers, botDefaults, Servers, inst, nextId, locks, callCtx,
                 stackTop, disp, errh, gor, crashed>>

\* lines 291-379: the entry of n is the settings table tbl, and no instance is
\* registered under n or its settings differ: NewIrcServer
RL_SrvCreate(n, tbl) ==
  /\ ~crashed
  /\ rl.pc = "srvloop"
  /\ n \in rl.todo
  /\ nextId <= MaxInst
  /\ LET cand == CandidateSettings(tbl, nick, realname, username)
     IN /\ CreateServer(Servers, inst, n, cand)
        /\ inst' = NewIrcServer(inst, nextId, n, cand)
  /\ nextId' = nextId + 1
  /\ rl' = [rl EXCEPT !.pc = "load2", !.cur = n, !.oldSvr = Servers[n],
                      !.newSvr = nextId, !.todo = @ \ {n},
                      !.luaServerNames = @ \cup {n},
                      !.cand[n] = CandidateSettings(tbl, nick, realname,
                                                    username)]
  /\ UNCHANGED workers
  /\ UNCHANGED <<handlers, botDefaults, Servers, locks, callCtx, stackTop,
                 disp, errh, gor, crashed>>

\* lines 381-385: Load again; the instance found is closed
RL_Load2 ==
  /\ ~crashed
  /\ rl.pc = "load2"
  /\ inst' = IF Servers[rl.cur] # None
             THEN CloseInst(inst, Servers[rl.cur])
             ELSE inst
  /\ rl' = [rl EXCEPT !.pc = "store"]
  /\ UNCHANGED workers
  /\ UNCHANGED <<handlers, botDefaults, Servers, nextId, locks, callCtx,
                 stackTop, disp, errh, gor, crashed>>

\* lines 386-387: Store the new instance; go Dial
RL_Store ==
  /\ ~crashed
  /\ rl.pc = "store"
  /\ Servers' = [Servers EXCEPT ![rl.cur] = rl.newSvr]
  /\ gor' = gor \cup { [op |-> "dial", id |-> rl.newSvr] }
  /\ rl' = [rl EXCEPT !.pc = "srvloop", !.cur = "", !.oldSvr = None,
                      !.newSvr = None]
  /\ UNCHANGED workers
  /\ UNCHANGED <<handlers, botDefaults, inst, nextId, locks, callCtx, stackTop,
                 disp, errh, crashed>>

\* lines 394-395: Range passes key k: it is declared, or not in the map
RL_RmSkip(k) ==
  /\ ~crashed
  /\ rl.pc = "srvloop"
  /\ rl.todo = {}
  /\ k \in rl.rmTodo
  /\ Servers[k] = None \/ k \in rl.luaServerNames
  /\ rl' = [rl EXCEPT !.rmTodo = @ \ {k}]
  /\ UNCHANGED workers
  /\ UNCHANGED <<handlers, botDefaults, Servers, inst, nextId, locks, callCtx,
                 stackTop, disp, errh, gor, crashed>>

\* lines 394-397: Range visits key k, a name that is not declared: go Close
RL_RmVisit(k) ==
  /\ ~crashed
  /\ rl.pc = "srvloop"
  /\ rl.todo = {}
  /\ k \in rl.rmTodo
  /\ Servers[k] # None
  /\ k \notin rl.luaServerNames
  /\ gor' = gor \cup { [op |-> "close", id |-> Servers[k]] }
  /\ rl' = [rl EXCEPT !.pc = "rmdelete", !.cur = k, !.rmTodo = @ \ {k}]
  /\ UNCHANGED workers
  /\ UNCHANGED <<handlers, botDefaults, Servers, inst, nextId, locks, callCtx,
                 stackTop, disp, errh, crashed>>

\* line 398: b.Servers.Delete(k)
RL_RmDelete ==
  /\ ~crashed
  /\ rl.pc = "rmdelete"
  /\ Servers' = [Servers EXCEPT ![rl.cur] = None]
  /\ rl' = [rl EXCEPT !.pc = "srvloop", !.cur = ""]
  /\ UNCHANGED workers
  /\ UNCHANGED <<handlers, botDefaults, inst, nextId, locks, callCtx, stackTop,
                 disp, errh, gor, crashed>>

\* lines 225-229 and 260 (deferred), on every return: handlersMutex.Unlock()
\* when it was taken, SetTop(0), luaMutex.Unlock()
RL_Unlock ==
  /\ ~crashed
  /\ \/ rl.pc = "unlock"
     \/ rl.pc = "srvloop" /\ rl.todo = {} /\ rl.rmTodo = {}
  /\ handlersMutex' = [handlersMutex EXCEPT !.w = FALSE]
  /\ stackTop' = 0
  /\ luaMutex' = "free"
  /\ rl' = [rl EXCEPT !.pc = "ret"]
  /\ UNCHANGED workers
  /\ UNCHANGED <<handlers, botDefaults, Servers, inst, nextId, serversMutex,
                 callCtx, disp, errh, gor, crashed>>

\* ReloadLua has returned rl.err to its caller
RL_Return ==
  /\ ~crashed
  /\ rl.pc = "ret"
  /\ rl' = RlIdle
  /\ UNCHANGED workers
  /\ UNCHANGED <<handlers, botDefaults, Servers, inst, nextId, locks, callCtx,
                 stackTop, disp, errh, gor, crashed>>

\* ReloadLua on scripts that fail to load
ReloadFails == RL_DoFileErr \/ RL_DoFileNotTable \/ RL_HandlersNotTable

\* ReloadLua on scripts whose defaults are drawn from D, handler tables from
\* H, sets of declared servers from Decl and settings tables from T
ReloadLua(D, H, Decl, T) ==
  \/ \E d \in D : RL_DoFile(d)
  \/ \E h \in H, declared \in Decl : RL_Handlers(h, declared)
  \/ \E n \in Names, tbl \in T : RL_SrvKeep(n, tbl) \/ RL_SrvCreate(n, tbl)
  \/ RL_Load2 \/ RL_Store
  \/ \E k \in Names : RL_RmSkip(k)
  \/ RL_Unlock \/ RL_Return

\* lines 394-398: what Range does with a registered name the script does not
\* declare
ReloadRemoves == (\E k \in Names : RL_RmVisit(k)) \/ RL_RmDelete

\* ------------------------------------------------- goroutines started by go
\* line 387: go svr.Dial(svrCtx)
GoDial(g) ==
  /\ ~crashed
  /\ g \in gor
  /\ g.op = "dial"
  /\ inst' = DialInst(inst, g.id)
  /\ gor' = gor \ {g}
  /\ UNCHANGED workers
  /\ UNCHANGED <<handlers, botDefaults, Servers, nextId, locks, callCtx,
                 stackTop, rl, disp, errh, crashed>>

\* line 397: go value.Close(ctx)
GoClose(g) ==
  /\ ~crashed
  /\ g \in gor
  /\ g.op = "close"
  /\ inst' = CloseInst(inst, g.id)
  /\ gor' = gor \ {g}
  /\ UNCHANGED workers
  /\ UNCHANGED <<handlers, botDefaults, Servers, nextId, locks, callCtx,
                 stackTop, rl, disp, errh, crashed>>

\* the instance's writer takes the oldest message off the outbound channel
Drain(id) ==
  /\ ~crashed
  /\ inst[id].created
  /\ inst[id].queue # <<>>
  /\ inst' = [inst EXCEPT ![id].queue = Tail(@)]
  /\ UNCHANGED workers
  /\ UNCHANGED <<handlers, botDefaults, Servers, nextId, locks, callCtx,
                 stackTop, rl, disp, errh, gor, crashed>>

\* ----------------------------------------------------------- HandleErrors
\* line 195: instance i reports a connection error, ErrorCallback(ctx, name,
\* err) with ctx the context of i; b.serversMutex.Lock()
HE_Lock(t, i) ==
  /\ ~crashed
  /\ errh[t].pc = "idle"
  /\ inst[i].created
  /\ inst[i].dialed
  /\ serversMutex = "free"
  /\ serversMutex' = t
  /\ errh' = [errh EXCEPT ![t] = [ErrIdle EXCEPT !.pc = "check", !.ctx = i]]
  /\ UNCHANGED workers
  /\ UNCHANGED <<handlers, botDefaults, Servers, inst, nextId, luaMutex,
                 handlersMutex, callCtx, stackTop, rl, disp, gor, crashed>>

\* a check that only asks whether the name is still configured
MutIsCurrent(srvs, i, ctx) == srvs[i[ctx].name] # None

\* line 206: ctx.Done() == s.Done(), the error is of the registered instance
IsCurrent(srvs, i, ctx) == srvs[i[ctx].name] # None /\ srvs[i[ctx].name] = ctx

\* lines 198-209: not configured any more, or not the current incarnation:
\* Unlock and return
HE_Ignore(t) ==
  /\ ~crashed
  /\ errh[t].pc = "check"
  /\ ~IsCurrent(Servers, inst, errh[t].ctx)
  /\ serversMutex' = "free"
  /\ errh' = [errh EXCEPT ![t] = ErrIdle]
  /\ UNCHANGED workers
  /\ UNCHANGED <<handlers, botDefaults, Servers, inst, nextId, luaMutex,
                 handlersMutex, callCtx, stackTop, rl, disp, gor, crashed>>

\* lines 198-215: the error belongs to the registered instance s: s.Close(ctx),
\* then NewIrcServer with the settings of s, and the backoff of s is copied
HE_Close(t) ==
  /\ ~crashed
  /\ errh[t].pc = "check"
  /\ IsCurrent(Servers, inst, errh[t].ctx)
  /\ nextId <= MaxInst
  /\ LET s == Servers[inst[errh[t].ctx].name]
     IN /\ inst' = [NewIrcServer(CloseInst(inst, s), nextId, inst[s].name,
                                 inst[s].settings)
                      EXCEPT ![nextId].exp = inst[s].exp]
        /\ errh' = [errh EXCEPT ![t].pc = "store", ![t].s = s,
                                ![t].newSvr = nextId]
  /\ nextId' = nextId + 1
  /\ UNCHANGED workers
  /\ UNCHANGED <<handlers, botDefaults, Servers, locks, callCtx, stackTop, rl,
                 disp, gor, crashed>>

\* a recovery that keeps serversMutex after the Store
MutHE_Store(t) ==
  /\ ~crashed
  /\ errh[t].pc = "store"
  /\ Servers' = [Servers EXCEPT ![inst[errh[t].ctx].name] = errh[t].newSvr]
  /\ errh' = [errh EXCEPT ![t].pc = "wait"]
  /\ UNCHANGED workers
  /\ UNCHANGED <<handlers, botDefaults, inst, nextId, locks,
                 callCtx, stackTop, rl, disp, gor, crashed>>

\* lines 216-217: Store and b.serversMutex.Unlock()
HE_Store(t) ==
  /\ ~crashed
  /\ errh[t].pc = "store"
  /\ Servers' = [Servers EXCEPT ![inst[errh[t].ctx].name] = errh[t].newSvr]
  /\ serversMutex' = "free"
  /\ errh' = [errh EXCEPT ![t].pc = "wait"]
  /\ UNCHANGED workers
  /\ UNCHANGED <<handlers, botDefaults, inst, nextId, luaMutex, handlersMutex,
                 callCtx, stackTop, rl, disp, gor, crashed>>

\* line 218: newSvr.ReconnectWait(svrCtx)
HE_Wait(t) ==
  /\ ~crashed
  /\ errh[t].pc = "wait"
  /\ inst' = ReconnectWait(inst, errh[t].newSvr)
  /\ errh' = [errh EXCEPT ![t].pc = "dial"]
  /\ UNCHANGED workers
  /\ UNCHANGED <<handlers, botDefaults, Servers, nextId, locks, callCtx,
                 stackTop, rl, disp, gor, crashed>>

\* line 219: newSvr.Dial(svrCtx)
HE_Dial(t) ==
  /\ ~crashed
  /\ errh[t].pc = "dial"
  /\ inst' = DialInst(inst, errh[t].newSvr)
  /\ errh' = [errh EXCEPT ![t] = ErrIdle]
  /\ UNCHANGED workers
  /\ UNCHANGED <<handlers, botDefaults, Servers, nextId, locks, callCtx,
                 stackTop, rl, disp, gor, crashed>>

HandleErrors ==
  \E t \in ErrTasks :
    \/ \E i \in InstIds : HE_Lock(t, i)
    \/ HE_Ignore(t) \/ HE_Close(t) \/ HE_Store(t) \/ HE_Wait(t) \/ HE_Dial(t)

\* ------------------------------------------------- inbound messages (Event)
NoPrefix == <<>>
NoMsg == [Prefix |-> NoPrefix, Command |-> "", Params |-> <<>>]
Msgs ==
  { [Prefix |-> <<"alice", "al", "example.org">>, Command |-> "PRIVMSG",
     Params |-> <<"testbot1", "HELLO">>],
    [Prefix |-> NoPrefix, Command |-> "PING", Params |-> <<"srv">>] }

\* ------------------------------------------- values a Lua callable returns
GoodbyeParams == LTbl(<<LStr("testbot1"), LStr("GOODBYE")>>)
ActHere == LTbl([command |-> LStr("PRIVMSG"), net |-> LNil, params |-> GoodbyeParams])
ActNet2 == LTbl([command |-> LStr("PRIVMSG"), net |-> LStr("net2"),
                 params |-> GoodbyeParams])
ActNowhere == LTbl([command |-> LStr("PRIVMSG"), net |-> LStr("nowhere"),
                    params |-> LNil])
RetTables == { <<ActNowhere, ActHere>>, <<LStr("junk"), ActNet2>> }

\* ---------------------------------------- handleLuaReturnValues: pure parts
\* lines 106-111: `net` of the record, the current server when it is empty
TargetNet(svrName, rec) ==
  IF Len(LVAsString(rec.net)) = 0 THEN svrName ELSE LVAsString(rec.net)

\* a copy that stores every parameter at index 0
MutParamsOf(rec) ==
  IF rec.params.t = "tbl"
  THEN [j \in 1 .. Len(rec.params.v) |->
          IF j = 1 THEN LVAsString(rec.params.v[Len(rec.params.v)]) ELSE ""]
  ELSE <<>>

\* lines 113-126: the parameters copied from `params`, none when it is no table
ParamsOf(rec) ==
  IF rec.params.t = "tbl"
  THEN [j \in 1 .. Len(rec.params.v) |-> LVAsString(rec.params.v[j])]
  ELSE <<>>

\* lines 103-131: the irc.Message built from one record
MessageOf(rec) == [Command |-> LVAsString(rec.command), Params |-> ParamsOf(rec)]

\* a lookup that falls back to the current server
MutLoadServer(srvs, svrName, net) ==
  IF net \in DOMAIN srvs THEN srvs[net] ELSE srvs[svrName]

\* line 133: b.Servers.Load(net)
LoadServer(srvs, svrName, net) == IF net \in DOMAIN srvs THEN srvs[net] ELSE None

\* a send that does not look at the room left
MutTrySend(i, id, m) == [i EXCEPT ![id].queue = Append(@, m)]

\* lines 135-140: the non-blocking send on the instance's outbound channel
TrySend(i, id, m) ==
  IF Len(i[id].queue) < QueueCap
  THEN [i EXCEPT ![id].queue = Append(@, m)]
  ELSE i

\* lines 97-145: the body of res.ForEach for one element of the result
Forward(i, srvs, svrName, messageL) ==
  IF messageL.t # "tbl" THEN i
  ELSE LET svr == LoadServer(srvs, svrName, TargetNet(svrName, messageL.v))
       IN IF svr # None THEN TrySend(i, svr, MessageOf(messageL.v)) ELSE i

\* lines 139, 142: what the body of ForEach logs for one element, "" for nothing
ForwardLog(i, srvs, svrName, messageL) ==
  IF messageL.t # "tbl" THEN ""
  ELSE LET svr == LoadServer(srvs, svrName, TargetNet(svrName, messageL.v))
       IN IF svr = None THEN "Invalid server"
          ELSE IF Len(i[svr].queue) < QueueCap THEN "" ELSE "Channel full"

\* the zero value of the interface type lua.LValue: an element of a slice made
\* by make and not assigned
ZeroLValue == [t |-> "zero"]

\* lines 68-86: the positional arguments of the handler call
luaParamsFromMessage(svrName, msg) ==
  [j \in 1 .. Len(msg.Params) + 4 |->
     IF j = 1 THEN LStr(svrName)
     ELSE IF j <= 4
          THEN IF msg.Prefix # NoPrefix THEN LStr(msg.Prefix[j - 1])
               ELSE ZeroLValue
          ELSE LStr(msg.Params[j - 4])]

\* a goroutine that is not in HandleHandlers; args is luaParams (line 163),
\* log the line the call logged last
DispIdle ==
  [pc |-> "idle", net |-> "", msg |-> NoMsg, fn |-> "", args |-> <<>>,
   ret |-> <<>>, log |-> ""]

\* ---------------------------------------------------------- HandleHandlers
\* line 155: InputCallback(ctx, svrName, msg), the live instance i delivers
\* the message m; b.handlersMutex.RLock(), which waits while a writer holds
\* the lock or waits for it (sync.RWMutex); a reload is taken to call Lock
\* (line 261) as soon as it has stored the defaults
DH_RLock(t, i, m) ==
  /\ ~crashed
  /\ disp[t].pc = "idle"
  /\ inst[i].created
  /\ inst[i].dialed
  /\ ~inst[i].closed
  /\ ~handlersMutex.w
  /\ rl.pc # "lockHandlers"
  /\ handlersMutex' = [handlersMutex EXCEPT !.r = @ \cup {t}]
  /\ disp' = [disp EXCEPT ![t] = [DispIdle EXCEPT !.pc = "lookup",
                                    !.net = inst[i].name, !.msg = m]]
  /\ UNCHANGED workers
  /\ UNCHANGED <<handlers, botDefaults, Servers, inst, nextId, luaMutex,
                 serversMutex, callCtx, stackTop, rl, errh, gor, crashed>>

\* lines 157-163: a function is registered for the command; RUnlock; the
\* arguments of the call are built
DH_Lookup(t) ==
  /\ ~crashed
  /\ disp[t].pc = "lookup"
  /\ disp[t].msg.Command \in DOMAIN handlers
  /\ handlersMutex' = [handlersMutex EXCEPT !.r = @ \ {t}]
  /\ disp' = [disp EXCEPT ![t].pc = "lockLua",
                          ![t].fn = handlers[disp[t].msg.Command],
                          ![t].args = luaParamsFromMessage(disp[t].net,
                                                           disp[t].msg)]
  /\ UNCHANGED workers
  /\ UNCHANGED <<handlers, botDefaults, Servers, inst, nextId, luaMutex,
                 serversMutex, callCtx, stackTop, rl, errh, gor, crashed>>

\* a lookup that does not test `ok` and goes on to the call
MutDH_NoHandler(t) ==
  /\ ~crashed
  /\ disp[t].pc = "lookup"
  /\ disp[t].msg.Command \notin DOMAIN handlers
  /\ handlersMutex' = [handlersMutex EXCEPT !.r = @ \ {t}]
  /\ disp' = [disp EXCEPT ![t].pc = "lockLua"]
  /\ UNCHANGED workers
  /\ UNCHANGED <<handlers, botDefaults, Servers, inst, nextId, luaMutex,
                 serversMutex, callCtx, stackTop, rl, errh, gor, crashed>>

\* lines 184-187: no function for the command; RUnlock and return
DH_NoHandler(t) ==
  /\ ~crashed
  /\ disp[t].pc = "lookup"
  /\ disp[t].msg.Command \notin DOMAIN handlers
  /\ handlersMutex' = [handlersMutex EXCEPT !.r = @ \ {t}]
  /\ disp' = [disp EXCEPT ![t] = DispIdle]
  /\ UNCHANGED workers
  /\ UNCHANGED <<handlers, botDefaults, Servers, inst, nextId, luaMutex,
                 serversMutex, callCtx, stackTop, rl, errh, gor, crashed>>

\* a call that does not wait for the interpreter lock
MutDH_LockLua(t) ==
  /\ ~crashed
  /\ disp[t].pc = "lockLua"
  /\ luaMutex' = t
  /\ disp' = [disp EXCEPT ![t].pc = "call"]
  /\ UNCHANGED workers
  /\ UNCHANGED <<handlers, botDefaults, Servers, inst, nextId, handlersMutex,
                 serversMutex, callCtx, stackTop, rl, errh, gor, crashed>>

\* line 165: b.luaMutex.Lock()
DH_LockLua(t) ==
  /\ ~crashed
  /\ disp[t].pc = "lockLua"
  /\ luaMutex = "free"
  /\ luaMutex' = t
  /\ disp' = [disp EXCEPT ![t].pc = "call"]
  /\ UNCHANGED workers
  /\ UNCHANGED <<handlers, botDefaults, Servers, inst, nextId, handlersMutex,
                 serversMutex, callCtx, stackTop, rl, errh, gor, crashed>>

\* lines 167-179: the context is stored; the protected call fails; return
DH_CallFault(t) ==
  /\ ~crashed
  /\ disp[t].pc = "call"
  /\ curMessage' = disp[t].msg
  /\ curNet' = disp[t].net
  /\ disp' = [disp EXCEPT ![t].pc = "unlock", ![t].log = "Handler failed"]
  /\ UNCHANGED workers
  /\ UNCHANGED <<handlers, botDefaults, Servers, inst, nextId, locks,
                 stackTop, rl, errh, gor, crashed>>

\* lines 167-181 and 90-93: the context is stored; the call returns nil, which
\* handleLuaReturnValues ignores
DH_CallNil(t) ==
  /\ ~crashed
  /\ disp[t].pc = "call"
  /\ curMessage' = disp[t].msg
  /\ curNet' = disp[t].net
  /\ stackTop' = stackTop + 1
  /\ disp' = [disp EXCEPT ![t].pc = "settop"]
  /\ UNCHANGED workers
  /\ UNCHANGED <<handlers, botDefaults, Servers, inst, nextId, locks, rl, errh,
                 gor, crashed>>

\* lines 167-181 and 95: the call returns a value that is neither nil nor a
\* table; CheckTable raises outside the protected call, the panic runs the
\* deferred Unlock (line 161) and ends the process
DH_CallNotTable(t) ==
  /\ ~crashed
  /\ disp[t].pc = "call"
  /\ curMessage' = disp[t].msg
  /\ curNet' = disp[t].net
  /\ stackTop' = stackTop + 1
  /\ luaMutex' = "free"
  /\ crashed' = TRUE
  /\ disp' = [disp EXCEPT ![t].pc = "panic"]
  /\ UNCHANGED workers
  /\ UNCHANGED <<handlers, botDefaults, Servers, inst, nextId, handlersMutex,
                 serversMutex, rl, errh, gor>>

\* lines 167-181 and 95-97: the context is stored; the call returns the table
\* r; ForEach starts
DH_Call(t, r) ==
  /\ ~crashed
  /\ disp[t].pc = "call"
  /\ curMessage' = disp[t].msg
  /\ curNet' = disp[t].net
  /\ stackTop' = stackTop + 1
  /\ disp' = [disp EXCEPT ![t].pc = "foreach", ![t].ret = r]
  /\ UNCHANGED workers
  /\ UNCHANGED <<handlers, botDefaults, Servers, inst, nextId, locks, rl, errh,
                 gor, crashed>>

\* lines 97-145: one element of the result is decoded and forwarded
DH_Forward(t) ==
  /\ ~crashed
  /\ disp[t].pc = "foreach"
  /\ inst' = Forward(inst, Servers, disp[t].net, Head(disp[t].ret))
  /\ disp' = [disp EXCEPT ![t].ret = Tail(@),
                          ![t].pc = IF Tail(disp[t].ret) = <<>>
                                    THEN "settop" ELSE "foreach",
                          ![t].log = ForwardLog(inst, Servers, disp[t].net,
                                                Head(disp[t].ret))]
  /\ UNCHANGED workers
  /\ UNCHANGED <<handlers, botDefaults, Servers, nextId, locks, callCtx,
                 stackTop, rl, errh, gor, crashed>>

\* lines 183 and 161 (deferred): SetTop(0); b.luaMutex.Unlock()
DH_SetTop(t) ==
  /\ ~crashed
  /\ disp[t].pc = "settop"
  /\ stackTop' = 0
  /\ luaMutex' = "free"
  /\ disp' = [disp EXCEPT ![t] = DispIdle]
  /\ UNCHANGED workers
  /\ UNCHANGED <<handlers, botDefaults, Servers, inst, nextId, handlersMutex,
                 serversMutex, callCtx, rl, errh, gor, crashed>>

\* a return after a failed call that keeps the interpreter lock
MutDH_Unlock(t) ==
  /\ ~crashed
  /\ disp[t].pc = "unlock"
  /\ disp' = [disp EXCEPT ![t] = DispIdle]
  /\ UNCHANGED workers
  /\ UNCHANGED <<handlers, botDefaults, Servers, inst, nextId, locks, callCtx,
                 stackTop, rl, errh, gor, crashed>>

\* lines 178 and 161 (deferred): return after a failed call; luaMutex.Unlock()
DH_Unlock(t) ==
  /\ ~crashed
  /\ disp[t].pc = "unlock"
  /\ luaMutex' = "free"
  /\ disp' = [disp EXCEPT ![t] = DispIdle]
  /\ UNCHANGED workers
  /\ UNCHANGED <<handlers, botDefaults, Servers, inst, nextId, handlersMutex,
                 serversMutex, callCtx, stackTop, rl, errh, gor, crashed>>

\* the calls of the goroutines T, for the inbound messages M and handlers
\* that return the tables R
Dispatch(T, M, R) ==
  \E t \in T :
    \/ \E i \in InstIds, m \in M : DH_RLock(t, i, m)
    \/ DH_Lookup(t) \/ DH_NoHandler(t) \/ DH_LockLua(t)
    \/ DH_CallFault(t) \/ DH_CallNil(t) \/ DH_CallNotTable(t)
    \/ \E r \in R : DH_Call(t, r)
    \/ DH_Forward(t) \/ DH_SetTop(t) \/ DH_Unlock(t)

HandleHandlers == Dispatch(DispTasks, Msgs, RetTables)

\* -------------------------------------------------------------- luaLibWorker
\* a worker goroutine that is not running. net is the curNet argument of the
\* goroutine (line 601), st the interpreter it took from the pool; trig is the
\* network of the event whose handling led to the spawn, which the code does
\* not store
WrkIdle ==
  [pc |-> "idle", net |-> "", trig |-> "", st |-> "", ret |-> <<>>, log |-> ""]

\* the tables a worker function returns
WorkerRets == { <<ActHere>> }

\* the interpreters worker goroutines hold
InUse == { wrk[w].st : w \in WorkerIds } \ {""}

\* lines 167-174 and 554-603: the context is stored; the handler running in
\* the protected call calls bb.worker; `go func(...)(functionProto, b.curNet,
\* b.curMessage)` evaluates b.curNet in the caller, which holds luaMutex and
\* stored the network at line 168; luaLibWorker returns at once
DH_Worker(t, w) ==
  /\ ~crashed
  /\ disp[t].pc = "call"
  /\ wrk[w].pc = "idle"
  /\ curMessage' = disp[t].msg
  /\ curNet' = disp[t].net
  /\ wrk' = [wrk EXCEPT ![w] = [WrkIdle EXCEPT !.pc = "spawned",
                                  !.net = disp[t].net, !.trig = disp[t].net]]
  /\ UNCHANGED <<pool, poolTop>>
  /\ UNCHANGED <<handlers, botDefaults, Servers, inst, nextId, locks,
                 stackTop, disp, rl, errh, gor, crashed>>

\* lines 554-603: the function of worker p calls bb.worker; b.curNet is
\* evaluated in p's goroutine, which holds no lock: it is the network the
\* last call of HandleHandlers stored
WK_Spawn(p, w) ==
  /\ ~crashed
  /\ wrk[p].pc = "run"
  /\ wrk[w].pc = "idle"
  /\ wrk' = [wrk EXCEPT ![w] = [WrkIdle EXCEPT !.pc = "spawned",
                                  !.net = curNet, !.trig = wrk[p].trig]]
  /\ UNCHANGED <<pool, poolTop>>
  /\ UNCHANGED <<handlers, botDefaults, Servers, inst, nextId, locks, callCtx,
                 stackTop, disp, rl, errh, gor, crashed>>

\* line 575: b.luaPool.Get() takes an interpreter out of the pool
WK_GetPooled(w, s) ==
  /\ ~crashed
  /\ wrk[w].pc = "spawned"
  /\ s \in pool
  /\ pool' = pool \ {s}
  /\ wrk' = [wrk EXCEPT ![w].pc = "run", ![w].st = s]
  /\ UNCHANGED poolTop
  /\ UNCHANGED <<handlers, botDefaults, Servers, inst, nextId, locks, callCtx,
                 stackTop, disp, rl, errh, gor, crashed>>

\* lines 575 and 754-758: b.luaPool.Get() finds nothing to hand out and makes
\* an interpreter with New
WK_GetNew(w, s) ==
  /\ ~crashed
  /\ wrk[w].pc = "spawned"
  /\ s \notin pool \cup InUse
  /\ poolTop' = [poolTop EXCEPT ![s] = 0]
  /\ wrk' = [wrk EXCEPT ![w].pc = "run", ![w].st = s]
  /\ UNCHANGED pool
  /\ UNCHANGED <<handlers, botDefaults, Servers, inst, nextId, locks, callCtx,
                 stackTop, disp, rl, errh, gor, crashed>>

\* lines 590-598: the protected call fails, which leaves the stack as it was
WK_CallFault(w) ==
  /\ ~crashed
  /\ wrk[w].pc = "run"
  /\ wrk' = [wrk EXCEPT ![w].pc = "put",
                        ![w].log = "worker: error calling Lua"]
  /\ UNCHANGED <<pool, poolTop>>
  /\ UNCHANGED <<handlers, botDefaults, Servers, inst, nextId, locks, callCtx,
                 stackTop, disp, rl, errh, gor, crashed>>

\* lines 590-600 and 90-93: the call returns nil
WK_CallNil(w) ==
  /\ ~crashed
  /\ wrk[w].pc = "run"
  /\ poolTop' = [poolTop EXCEPT ![wrk[w].st] = @ + 1]
  /\ wrk' = [wrk EXCEPT ![w].pc = "put"]
  /\ UNCHANGED pool
  /\ UNCHANGED <<handlers, botDefaults, Servers, inst, nextId, locks, callCtx,
                 stackTop, disp, rl, errh, gor, crashed>>

\* lines 590-600, 95 and 576-580: the call returns a value that is neither nil
\* nor a table; CheckTable raises outside the protected call, the panic runs
\* the deferred SetTop(0) and Put and ends the process
WK_CallNotTable(w) ==
  /\ ~crashed
  /\ wrk[w].pc = "run"
  /\ poolTop' = [poolTop EXCEPT ![wrk[w].st] = 0]
  /\ pool' = pool \cup {wrk[w].st}
  /\ crashed' = TRUE
  /\ wrk' = [wrk EXCEPT ![w].pc = "panic", ![w].st = ""]
  /\ UNCHANGED <<handlers, botDefaults, Servers, inst, nextId, locks, callCtx,
                 stackTop, disp, rl, errh, gor>>

\* lines 590-600 and 95-97: the call returns the table r; ForEach starts
WK_Call(w, r) ==
  /\ ~crashed
  /\ wrk[w].pc = "run"
  /\ poolTop' = [poolTop EXCEPT ![wrk[w].st] = @ + 1]
  /\ wrk' = [wrk EXCEPT ![w].pc = "foreach", ![w].ret = r]
  /\ UNCHANGED pool
  /\ UNCHANGED <<handlers, botDefaults, Servers, inst, nextId, locks, callCtx,
                 stackTop, disp, rl, errh, gor, crashed>>

\* lines 600 and 97-145: one element of the result is decoded and forwarded,
\* with the curNet argument as the current server
WK_Forward(w) ==
  /\ ~crashed
  /\ wrk[w].pc = "foreach"
  /\ inst' = Forward(inst, Servers, wrk[w].net, Head(wrk[w].ret))
  /\ wrk' = [wrk EXCEPT ![w].ret = Tail(@),
                        ![w].pc = IF Tail(wrk[w].ret) = <<>>
                                  THEN "put" ELSE "foreach",
                        ![w].log = ForwardLog(inst, Servers, wrk[w].net,
                                              Head(wrk[w].ret))]
  /\ UNCHANGED <<pool, poolTop>>
  /\ UNCHANGED <<handlers, botDefaults, Servers, nextId, locks, callCtx,
                 stackTop, disp, rl, errh, gor, crashed>>

\* a return that puts the interpreter back with its stack as it is
MutWK_Put(w) ==
  /\ ~crashed
  /\ wrk[w].pc = "put"
  /\ pool' = pool \cup {wrk[w].st}
  /\ wrk' = [wrk EXCEPT ![w] = WrkIdle]
  /\ UNCHANGED poolTop
  /\ UNCHANGED <<handlers, botDefaults, Servers, inst, nextId, locks, callCtx,
                 stackTop, disp, rl, errh, gor, crashed>>

\* lines 576-580 (deferred): newState.SetTop(0); b.luaPool.Put(newState)
WK_Put(w) ==
  /\ ~crashed
  /\ wrk[w].pc = "put"
  /\ poolTop' = [poolTop EXCEPT ![wrk[w].st] = 0]
  /\ pool' = pool \cup {wrk[w].st}
  /\ wrk' = [wrk EXCEPT ![w] = WrkIdle]
  /\ UNCHANGED <<handlers, botDefaults, Servers, inst, nextId, locks, callCtx,
                 stackTop, disp, rl, errh, gor, crashed>>

\* the worker goroutines and the calls of bb.worker that start them
Workers ==
  \/ \E t \in DispTasks, w \in WorkerIds : DH_Worker(t, w)
  \/ \E p \in WorkerIds, w \in WorkerIds : WK_Spawn(p, w)
  \/ \E w \in WorkerIds, s \in PoolStates : WK_GetPooled(w, s)
  \/ \E w \in WorkerIds, s \in PoolStates : WK_GetNew(w, s)
  \/ \E w \in WorkerIds :
       \/ WK_CallFault(w) \/ WK_CallNil(w) \/ WK_CallNotTable(w)
       \/ \E r \in WorkerRets : WK_Call(w, r)
       \/ WK_Forward(w) \/ WK_Put(w)

\* ------------------------------------------------------------------- system
\* NewBananaBoatBot, lines 742-763, before its call of ReloadLua
Init ==
  /\ handlers = <<>>
  /\ nick = "BananaBoatBot"
  /\ realname = "Banana Boat Bot"
  /\ username = "bananarama"
  /\ Servers = [n \in Names |-> None]
  /\ inst = [i \in InstIds |-> NoInst]
  /\ nextId = 1
  /\ luaMutex = "free"
  /\ handlersMutex = [w |-> FALSE, r |-> {}]
  /\ serversMutex = "free"
  /\ curNet = ""
  /\ curMessage = NoMsg
  /\ stackTop = 0
  /\ rl = RlIdle
  /\ disp = [t \in DispTasks |-> DispIdle]
  /\ errh = [t \in ErrTasks |-> ErrIdle]
  /\ gor = {}
  /\ crashed = FALSE
  /\ wrk = [w \in WorkerIds |-> WrkIdle]
  /\ pool = {}
  /\ poolTop = [s \in PoolStates |-> 0]

Dials == \E g \in gor : GoDial(g)
Closes == \E g \in gor : GoClose(g)

\* the scripts of the specifications
DefaultsUnset == [nick |-> LNil, realname |-> LNil, username |-> LNil]
PlainTbl == CHOOSE t \in SettingTbls : t.tls.v = FALSE
PrivmsgTbl == { [k |-> LStr("PRIVMSG"), v |-> LFn("f1")] }

\* reloads alone: scripts with every handler table and every choice of defaults
NextRegistry ==
  \/ ReloadLua(DefaultOpts, HandlerTbls, {{"test"}, Names}, {PlainTbl})
  \/ ReloadRemoves
  \/ ReloadFails
SpecRegistry == Init /\ [][NextRegistry]_vars

\* reloads, error recoveries and the Dials they start: scripts that load and
\* declare one server with either settings table, so that Range finds no
\* name to remove and no Close is started
NextReplace ==
  \/ ReloadLua({DefaultsUnset}, {PrivmsgTbl}, {{"test"}}, SettingTbls)
  \/ HandleErrors
  \/ Dials
SpecReplace == Init /\ [][NextReplace]_vars

\* reloads, error recoveries and the goroutines they start: scripts that load
\* and declare one or both servers with the same settings table
NextReload ==
  \/ ReloadLua({DefaultsUnset}, {PrivmsgTbl}, {{"test"}, Names}, {PlainTbl})
  \/ ReloadRemoves
  \/ HandleErrors
  \/ Dials
  \/ Closes
SpecReload == Init /\ [][NextReload]_vars

\* reloads and the dispatch of inbound messages: scripts that fail to load,
\* and scripts that declare both servers, so that Range finds no name to
\* remove and no Close is started
Next ==
  \/ ReloadLua({DefaultsUnset}, {PrivmsgTbl}, {Names}, {PlainTbl})
  \/ ReloadFails
  \/ HandleHandlers
  \/ Dials
  \/ \E i \in InstIds : Drain(i)
Spec == Init /\ [][Next]_vars

\* the steps of a started call of HandleHandlers that wait for nothing
DH_Step(t) ==
  \/ DH_Lookup(t) \/ DH_NoHandler(t)
  \/ DH_CallFault(t) \/ DH_CallNil(t) \/ DH_CallNotTable(t)
  \/ \E r \in RetTables : DH_Call(t, r)
  \/ DH_Forward(t) \/ DH_SetTop(t) \/ DH_Unlock(t)

\* the steps of a started call of ReloadLua after DoFile, but for the step
\* that waits for handlersMutex
RL_Step ==
  \/ \E n \in Names : RL_SrvKeep(n, PlainTbl) \/ RL_SrvCreate(n, PlainTbl)
  \/ RL_Load2 \/ RL_Store
  \/ \E k \in Names : RL_RmSkip(k)
  \/ RL_Unlock \/ RL_Return

\* line 261: the step of ReloadLua that waits for handlersMutex
RL_LockHandlers == RL_HandlersNotTable \/ RL_Handlers(PrivmsgTbl, Names)

\* the scheduler runs every goroutine that can take a step, and sync.Mutex
\* and sync.RWMutex hand a lock that is freed again and again to every
\* goroutine that waits for it; the arrival of messages and the start of a
\* reload are left to the environment
Fairness ==
  /\ \A t \in DispTasks : WF_vars(DH_Step(t)) /\ SF_vars(DH_LockLua(t))
  /\ WF_vars(RL_Step)
  /\ SF_vars(RL_LockHandlers)
SpecFair == Init /\ [][Next]_vars /\ Fairness

\* one dispatching goroutine, the workers its handlers start and the workers
\* those start: scripts that declare both servers
NextWorker ==
  \/ ReloadLua({DefaultsUnset}, {PrivmsgTbl}, {Names}, {PlainTbl})
  \/ Dispatch({"d1"}, Msgs, { <<ActHere>> })
  \/ Workers
  \/ Dials
SpecWorker == Init /\ [][NextWorker]_vars


\* inbound messages with and without a prefix, with zero to two parameters
ParamMsgs ==
  Msgs \cup
  { [Prefix |-> NoPrefix, Command |-> "PRIVMSG", Params |-> ps] :
      ps \in {<<>>, <<"testbot1">>, <<"testbot1", "HELLO">>} }

\* one dispatching goroutine that handles the messages of ParamMsgs: scripts
\* that declare one server
NextParams ==
  \/ ReloadLua({DefaultsUnset}, {PrivmsgTbl}, {{"test"}}, {PlainTbl})
  \/ Dispatch({"d1"}, ParamMsgs, RetTables)
  \/ Dials
  \/ \E i \in InstIds : Drain(i)
SpecParams == Init /\ [][NextParams]_vars

\* the same with scripts that declare one server
NextPool ==
  \/ ReloadLua({DefaultsUnset}, {PrivmsgTbl}, {{"test"}}, {PlainTbl})
  \/ Dispatch({"d1"}, Msgs, { <<ActHere>> })
  \/ Workers
  \/ Dials
SpecPool == Init /\ [][NextPool]_vars

\* one dispatching goroutine and reloads of scripts with every handler table,
\* which declare one server
NextStale ==
  \/ ReloadLua({DefaultsUnset}, HandlerTbls, {{"test"}}, {PlainTbl})
  \/ Dispatch({"d1"}, Msgs, { <<ActHere>> })
  \/ Dials
SpecStale == Init /\ [][NextStale]_vars

\* ------------------------------------------------------------------ claims
\* C1: when a reload has returned without an error, the commands of the
\* registry are exactly the keys, as strings, of the handler table's callable
\* entries, each bound to its callable, whatever the registry held before.
C1_RegistryRebuilt ==
  (rl.pc = "ret" /\ rl.err = "") =>
    /\ DOMAIN handlers =
         { LVAsString(e.k) : e \in { x \in rl.handlerTbl.v : x.v.t = "fn" } }
    /\ \A e \in rl.handlerTbl.v :
         e.v.t = "fn" => handlers[LVAsString(e.k)] = e.v.v

\* a reload has returned after it removed a command of the registry it found
\* and registered another
C1_Witness ==
  /\ rl.pc = "ret"
  /\ rl.err = ""
  /\ DOMAIN rl.pre.handlers \ DOMAIN handlers # {}
  /\ DOMAIN handlers \ DOMAIN rl.pre.handlers # {}

\* C2: when a reload has returned an error, the registry, the defaults, the
\* server set and the instances created are the ones the call found.
C2_FailedReloadChangesNothing ==
  (rl.pc = "ret" /\ rl.err # "") =>
    /\ handlers = rl.pre.handlers
    /\ botDefaults = rl.pre.defaults
    /\ Servers = rl.pre.Servers
    /\ nextId = rl.pre.nextId

\* C3: the step of a reload that processes the entry of a name whose
\* registered instance has exactly the candidate's settings keeps the name,
\* creates, closes, registers and dials nothing; and no later step of that
\* reload changes the registration or the instance of a kept name.
C3_IdenticalSettingsKept ==
  /\ [][\A n \in Names, tbl \in SettingTbls :
          ( /\ RL_SrvKeep(n, tbl) \/ RL_SrvCreate(n, tbl)
            /\ Servers[n] # None
            /\ inst[Servers[n]].settings =
                 CandidateSettings(tbl, nick, realname, username) )
          => /\ n \in rl'.kept
             /\ rl'.pc = "srvloop"
             /\ UNCHANGED <<Servers, inst, nextId, gor>>]_vars
  /\ [][rl' # rl =>
          \A n \in rl.kept :
            /\ Servers'[n] = Servers[n]
            /\ Servers[n] # None => inst'[Servers[n]] = inst[Servers[n]]]_vars

\* a reload has returned and an instance it kept is registered and live
C3_Witness ==
  /\ rl.pc = "ret"
  /\ \E n \in rl.kept :
       /\ Servers[n] # None
       /\ inst[Servers[n]].dialed
       /\ ~inst[Servers[n]].closed

\* C4: the step of a reload that processes the entry of a name that is not
\* registered, or whose registered instance differs from the candidate in a
\* compared field, creates a fresh instance with the candidate's settings and
\* backoff zero; and the Store that follows registers it under the name and
\* starts its Dial, the instance found under the name before being closed.
C4_DifferingSettingsReplaced ==
  /\ [][\A n \in Names, tbl \in SettingTbls :
          ( /\ RL_SrvKeep(n, tbl) \/ RL_SrvCreate(n, tbl)
            /\ \/ Servers[n] = None
               \/ inst[Servers[n]].settings #
                    CandidateSettings(tbl, nick, realname, username) )
          => /\ rl'.pc = "load2"
             /\ rl'.cur = n
             /\ rl'.newSvr = nextId
             /\ ~inst[nextId].created
             /\ inst'[nextId] =
                  [created |-> TRUE, name |-> n,
                   settings |-> CandidateSettings(tbl, nick, realname, username),
                   closed |-> FALSE, dialed |-> FALSE, exp |-> 0,
                   queue |-> <<>>]
             /\ \A i \in InstIds \ {nextId} : inst'[i] = inst[i]]_vars
  /\ [][(rl.pc = "store" /\ rl'.pc # "store") =>
          /\ Servers'[rl.cur] = rl.newSvr
          /\ [op |-> "dial", id |-> rl.newSvr] \in gor'
          /\ rl.oldSvr # None => inst'[rl.oldSvr].closed
          /\ ~inst'[rl.newSvr].closed
          /\ inst'[rl.newSvr].exp = 0]_vars

\* C5: when a reload has returned without an error, the registered names are
\* the names the script declared.
C5_RegisteredAreDeclared ==
  (rl.pc = "ret" /\ rl.err = "") =>
    { n \in Names : Servers[n] # None } = rl.luaServerNames

\* C6: at most one goroutine is between taking and releasing the interpreter
\* lock for a handler call, it is the holder of the lock, and curNet and
\* curMessage change only by the holder storing its own server and message.
C6_OneHandlerCall ==
  /\ [](\A t, u \in DispTasks :
          ( /\ disp[t].pc \in {"call", "foreach", "settop", "unlock"}
            /\ disp[u].pc \in {"call", "foreach", "settop", "unlock"} )
          => t = u)
  /\ [](\A t \in DispTasks :
          disp[t].pc \in {"call", "foreach", "settop", "unlock"}
          => luaMutex = t)
  /\ [][callCtx' # callCtx =>
          \E t \in DispTasks :
            /\ luaMutex = t
            /\ disp[t].pc = "call"
            /\ curNet' = disp[t].net
            /\ curMessage' = disp[t].msg]_vars

\* a handler call has stored its context while another goroutine waits for
\* the interpreter lock
C6_Witness ==
  \E t, u \in DispTasks :
    /\ disp[t].pc = "foreach"
    /\ curNet = disp[t].net
    /\ curMessage = disp[t].msg
    /\ disp[u].pc = "lockLua"

\* C7: the step in which a handler call fails leaves the process running and
\* every outbound queue as it was; the return that follows enqueues nothing,
\* is never blocked and leaves the interpreter lock free and the goroutine
\* ready for the next message.
C7_HandlerFaultIsolated ==
  /\ [][\A t \in DispTasks :
          (disp[t].pc = "call" /\ disp'[t].log = "Handler failed")
          => (~crashed' /\ inst' = inst /\ disp'[t].pc = "unlock")]_vars
  /\ [](\A t \in DispTasks : disp[t].pc = "unlock" => ENABLED DH_Unlock(t))
  /\ [][\A t \in DispTasks :
          (disp[t].pc = "unlock" /\ disp'[t] # disp[t])
          => /\ disp'[t] = DispIdle
             /\ luaMutex' = "free"
             /\ inst' = inst
             /\ ~crashed']_vars

\* a handler call has failed while another goroutine waits to call a handler
C7_Witness ==
  \E t, u \in DispTasks :
    /\ disp[t].pc = "unlock"
    /\ disp[t].log = "Handler failed"
    /\ disp[u].pc = "lockLua"
    /\ ~crashed

\* C8: the step of a dispatch that finds no handler for the command releases
\* the read lock of the registry and returns; the interpreter lock, curNet,
\* curMessage, the interpreter's stack and every outbound queue stay as they
\* were.
C8_NoHandlerNoEffect ==
  [][\A t \in DispTasks :
       ( /\ disp[t].pc = "lookup"
         /\ disp[t].msg.Command \notin DOMAIN handlers
         /\ disp'[t] # disp[t] )
       => /\ disp'[t] = DispIdle
          /\ t \in handlersMutex.r
          /\ handlersMutex' = [handlersMutex EXCEPT !.r = @ \ {t}]
          /\ UNCHANGED <<luaMutex, curNet, curMessage, stackTop, inst>>]_vars

\* a dispatch holds the read lock of a registry that has handlers, but none
\* for its command
C8_Witness ==
  \E t \in DispTasks :
    /\ disp[t].pc = "lookup"
    /\ handlers # <<>>
    /\ disp[t].msg.Command \notin DOMAIN handlers
    /\ t \in handlersMutex.r

\* C9: forwarding an Action whose target network is not registered changes
\* no outbound queue and does not end the process, and the forwarding goes on
\* with the Actions that remain.
C9_UnknownTargetDropped ==
  [][\A t \in DispTasks :
       ( /\ disp[t].pc = "foreach"
         /\ disp'[t] # disp[t]
         /\ Head(disp[t].ret).t = "tbl"
         /\ LET net == TargetNet(disp[t].net, Head(disp[t].ret).v)
            IN net \notin Names \/ Servers[net] = None )
       => /\ inst' = inst
          /\ ~crashed'
          /\ luaMutex' = t
          /\ disp'[t].ret = Tail(disp[t].ret)
          /\ disp'[t].pc = IF Tail(disp[t].ret) = <<>>
                           THEN "settop" ELSE "foreach"]_vars

\* an Action for an unregistered network has been dropped and the Action
\* after it is still to be forwarded
C9_Witness ==
  \E t \in DispTasks :
    /\ disp[t].pc = "foreach"
    /\ disp[t].log = "Invalid server"
    /\ disp[t].ret = <<ActHere>>

\* C10: forwarding an Action to a registered target is never blocked: with
\* room in the target's outbound queue the message is appended, with the
\* queue full the message is dropped and every queue stays as it was; no
\* queue ever holds more than its capacity.
C10_FullQueueDrops ==
  /\ [](\A i \in InstIds : Len(inst[i].queue) <= QueueCap)
  /\ [](\A t \in DispTasks : disp[t].pc = "foreach" => ENABLED DH_Forward(t))
  /\ [][\A t \in DispTasks, n \in Names :
          ( /\ disp[t].pc = "foreach"
            /\ disp'[t] # disp[t]
            /\ Head(disp[t].ret).t = "tbl"
            /\ n = TargetNet(disp[t].net, Head(disp[t].ret).v)
            /\ Servers[n] # None )
          => IF Len(inst[Servers[n]].queue) < QueueCap
             THEN inst' = [inst EXCEPT ![Servers[n]].queue =
                             Append(@, MessageOf(Head(disp[t].ret).v))]
             ELSE inst' = inst]_vars

\* a message for a full outbound queue has been dropped
C10_Witness ==
  \E t \in DispTasks :
    /\ disp[t].log = "Channel full"
    /\ \E i \in InstIds : Len(inst[i].queue) = QueueCap

C12_StaleErrorIgnored ==
  [][\A t \in ErrTasks :
       ( /\ errh[t].pc = "check"
         /\ errh'[t] # errh[t]
         /\ Servers[inst[errh[t].ctx].name] # None
         /\ Servers[inst[errh[t].ctx].name] # errh[t].ctx )
       => /\ UNCHANGED <<Servers, inst, nextId, gor>>
          /\ errh'[t] = ErrIdle
          /\ serversMutex' = "free"]_vars

\* HandleErrors examines an error of a closed instance that another instance
\* has replaced under its name
C12_Witness ==
  \E t \in ErrTasks :
    /\ errh[t].pc = "check"
    /\ inst[errh[t].ctx].closed
    /\ Servers[inst[errh[t].ctx].name] # None
    /\ Servers[inst[errh[t].ctx].name] # errh[t].ctx
    /\ serversMutex = t

\* C13: a worker forwards a record without `net` to the network of the event
\* whose handling led to its spawn, whether a handler or another worker
\* started it, and whatever the dispatcher handled in between
C13_WorkerUsesTriggeringNet ==
  [][\A w \in WorkerIds :
       (/\ wrk[w].pc = "foreach"
        /\ wrk'[w] # wrk[w]
        /\ Head(wrk[w].ret).t = "tbl"
        /\ Head(wrk[w].ret).v.net = LNil
        /\ Servers[wrk[w].trig] # None
        /\ Len(inst[Servers[wrk[w].trig]].queue) < QueueCap)
       => inst'[Servers[wrk[w].trig]].queue =
            Append(inst[Servers[wrk[w].trig]].queue,
                   MessageOf(Head(wrk[w].ret).v))]_vars

\* C14: when a reload has completed and no recovery is in flight, the
\* instance registered under each declared name carries the settings that
\* reload computed for the name
C14_ReloadSettingsRemain ==
  (/\ rl.pc = "ret"
   /\ rl.err = ""
   /\ \A t \in ErrTasks : errh[t].pc = "idle")
  => \A n \in rl.luaServerNames :
       /\ Servers[n] # None
       /\ inst[Servers[n]].settings = rl.cand[n]

\* C15: a call of HandleHandlers that waits for the interpreter lock gets it
C15_WaitingCallGetsLock ==
  \A t \in DispTasks : (disp[t].pc = "lockLua") ~> (luaMutex = t)

\* C16: whenever the interpreter lock is free, the stack of the shared
\* interpreter is empty
C16_FreeLockEmptyStack == luaMutex = "free" => stackTop = 0

\* C17: a recovery for the registered instance closes it, creates an instance
\* with its settings and its backoff, registers it and releases serversMutex,
\* then waits, then dials; the new instance is not dialed before it is
\* registered and has waited, and serversMutex is not held by a recovery that
\* waits or dials
C17_RecoveryOrder ==
  /\ [][\A t \in ErrTasks :
         /\ (errh[t].pc = "check" /\ errh'[t].pc = "store")
            => LET s == Servers[inst[errh[t].ctx].name]
                   new == errh'[t].newSvr
               IN /\ s = errh[t].ctx
                  /\ inst'[s].closed
                  /\ ~inst[new].created
                  /\ inst'[new].created
                  /\ inst'[new].name = inst[s].name
                  /\ inst'[new].settings = inst[s].settings
                  /\ inst'[new].exp = inst[s].exp
                  /\ ~inst'[new].dialed
                  /\ Servers' = Servers
                  /\ serversMutex' = t
         /\ (errh[t].pc = "store" /\ errh'[t].pc # "store")
            => /\ errh'[t].pc = "wait"
               /\ Servers'[inst[errh[t].ctx].name] = errh[t].newSvr
               /\ serversMutex = t
               /\ serversMutex' = "free"
               /\ inst' = inst
         /\ (errh[t].pc = "wait" /\ errh'[t].pc # "wait")
            => /\ errh'[t].pc = "dial"
               /\ inst' = ReconnectWait(inst, errh[t].newSvr)
               /\ Servers' = Servers
         /\ (errh[t].pc = "dial" /\ errh'[t].pc # "dial")
            => /\ errh'[t].pc = "idle"
               /\ inst'[errh[t].newSvr].dialed
               /\ Servers' = Servers]_vars
  /\ [](\A t \in ErrTasks :
         /\ errh[t].pc \in {"wait", "dial"} => serversMutex # t
         /\ errh[t].pc \in {"store", "wait", "dial"}
            => ~inst[errh[t].newSvr].dialed)

\* one recovery has registered its instance and is about to dial it while
\* another holds serversMutex
C17_Witness ==
  \E t \in ErrTasks, u \in ErrTasks :
    /\ errh[t].pc = "dial"
    /\ inst[errh[t].newSvr].exp > 0
    /\ inst[errh[t].ctx].closed
    /\ errh[u].pc = "check"
    /\ serversMutex = u

\* C18: a worker never takes luaMutex and never touches the stack of the
\* shared interpreter; the interpreter it took from the pool is held by no
\* other worker and is not in the pool while it runs; every interpreter in the
\* pool has an empty stack, and a worker that ends puts its interpreter back;
\* the call of bb.worker returns to its caller while the worker has not
\* started
C18_WorkerOnPoolInterpreter ==
  /\ [](luaMutex \notin WorkerIds)
  /\ [](\A w \in WorkerIds :
         /\ wrk[w].pc \in {"run", "foreach", "put"}
            => /\ wrk[w].st \in PoolStates \ pool
               /\ \A v \in WorkerIds \ {w} : wrk[v].st # wrk[w].st
         /\ wrk[w].pc \in {"idle", "spawned"} => wrk[w].st = "")
  /\ [](\A s \in pool : poolTop[s] = 0)
  /\ [][\A w \in WorkerIds :
         /\ wrk'[w] # wrk[w] => luaMutex' = luaMutex /\ stackTop' = stackTop
         /\ (wrk[w].pc = "run" /\ wrk'[w].pc # "run" /\ ~crashed')
            => wrk'[w].pc \in {"put", "foreach"}
         /\ (wrk[w].pc \in {"put", "foreach"} /\ wrk'[w].pc = "idle")
            => /\ wrk[w].pc = "put"
               /\ wrk[w].st \in pool'
               /\ poolTop'[wrk[w].st] = 0
         /\ (wrk[w].pc = "idle" /\ wrk'[w].pc = "spawned")
            => /\ wrk'[w].st = ""
               /\ disp' = disp
               /\ \A v \in WorkerIds \ {w} : wrk'[v] = wrk[v]]_vars

\* a worker forwards what its function returned, with the value still on the
\* stack of its interpreter, while another goroutine holds luaMutex and a
\* second worker, whose call failed, is about to put its interpreter back
C18_Witness ==
  \E w \in WorkerIds, v \in WorkerIds :
    /\ wrk[w].pc = "foreach"
    /\ poolTop[wrk[w].st] > 0
    /\ luaMutex # "free"
    /\ wrk[v].pc = "put"
    /\ wrk[v].log = "worker: error calling Lua"
    /\ wrk[v].st # wrk[w].st

\* C19: every started call of HandleHandlers and every started call of
\* ReloadLua returns
C19_StartedCallsComplete ==
  /\ \A t \in DispTasks : (disp[t].pc # "idle") ~> (disp[t].pc = "idle")
  /\ (rl.pc # "idle") ~> (rl.pc = "idle")

\* C20: the registry changes only under the write lock of handlersMutex, and
\* the server set changes only in a step of a goroutine that holds
\* serversMutex
C20_MutationsUnderLocks ==
  [][/\ handlers' # handlers => handlersMutex'.w
     /\ Servers' # Servers => serversMutex # "free"]_vars

\* C21: when a handler or a worker function returns a value that is neither
\* nil nor a table, nothing is delivered, the process keeps running and the
\* interpreter lock is free for later events
C21_BadReturnIsLocal ==
  [][/\ \A t \in DispTasks :
          (disp[t].pc = "call" /\ disp'[t].pc = "panic")
          => ~crashed' /\ luaMutex' = "free" /\ inst' = inst
     /\ \A w \in WorkerIds :
          (wrk[w].pc = "run" /\ wrk'[w].pc = "panic")
          => ~crashed' /\ luaMutex' = luaMutex /\ inst' = inst]_vars

\* C22: the handler of a message with k parameters on network n is called
\* with k+4 arguments: n, the nick, user and host of the prefix or three
\* empty strings when there is no prefix, then the parameters in order
C22_HandlerArguments ==
  \A t \in DispTasks :
    disp[t].pc = "call"
    => LET m == disp[t].msg
       IN /\ Len(disp[t].args) = Len(m.Params) + 4
          /\ disp[t].args[1] = LStr(disp[t].net)
          /\ \A j \in 1 .. 3 :
               disp[t].args[j + 1] =
                 LStr(IF m.Prefix # NoPrefix THEN m.Prefix[j] ELSE "")
          /\ \A j \in 1 .. Len(m.Params) :
               disp[t].args[j + 4] = LStr(m.Params[j])

\* C23: when no reload, no recovery and no asynchronous Close is in progress,
\* every instance that was created and not closed is the one registered
\* under its name
C23_OpenInstancesRegistered ==
  (/\ rl.pc = "idle"
   /\ \A t \in ErrTasks : errh[t].pc = "idle"
   /\ \A g \in gor : g.op # "close")
  => \A i \in InstIds :
       (inst[i].created /\ ~inst[i].closed) => Servers[inst[i].name] = i

\* C24: the callable a call of HandleHandlers invokes under the interpreter
\* lock is the one registered for the command of the message at that moment
C24_CalledIsRegistered ==
  \A t \in DispTasks :
    disp[t].pc = "call"
    => /\ disp[t].msg.Command \in DOMAIN handlers
       /\ handlers[disp[t].msg.Command] = disp[t].fn
====
